---- MODULE Spec2Model ----
(***************************************************************************)
(* tinytemple: a static-site generator.  main() loads a TOML configuration *)
(* into a shared Context, wipes and recreates the output directory,        *)
(* registers every .hbs template of the source directory, renders each     *)
(* template (with the HTML of its optional Markdown file under the key     *)
(* "content") into <outdir>/<name>.html, and finally copies the static     *)
(* directory's contents into the output directory.                         *)
(*                                                                         *)
(* The model follows src/src/main.rs statement by statement.  The file     *)
(* system (configuration file, source directory, static directory, output  *)
(* directory and the outcome of each I/O call on them) is the environment: *)
(* it is chosen in Init and stays unchanged, so that successive runs see   *)
(* the same inputs.  The only choice made during a run is the order in     *)
(* which the template registry (a hash map) enumerates its keys.           *)
(***************************************************************************)
EXTENDS Integers, Sequences, FiniteSets, TLC

\* Number of successive invocations of the tool that are modelled.
MaxRuns == 2

\* Logical template names found under the source directory (path relative to
\* sourcedir, ".hbs" stripped).  One sits at the top level, one in a
\* subdirectory.
Names == {"index", "blog/post"}

\* Every path below the output directory that a run can touch.
Paths == {"index.html", "blog", "blog/post.html", "logo.png", "old.html"}

(***************************************************************************)
(* Context = toml::Table: a map from string keys to values.  It is a       *)
(* function whose domain is the set of keys present.                       *)
(***************************************************************************)
EmptyTable == [k \in {} |-> ""]

\* toml::Table::insert(key, value)
insert(c, key, value) ==
    [k \in (DOMAIN c) \cup {key} |-> IF k = key THEN value ELSE c[k]]

\* toml::Table::remove(key)
remove(c, key) == [k \in (DOMAIN c) \ {key} |-> c[k]]

\* Contents a configuration file can have.  "unreadable" stands for a file
\* that read_to_string cannot read; the others are raw texts.
ConfigFiles == {"unreadable", "title = [", "title = 'Hi'",
                "title = 'Hi'; content = 'cfg'"}

\* toml::from_str: the parsed table, or no table on a syntax error.
from_str(raw) ==
    CASE raw = "title = 'Hi'" ->
           [ok |-> TRUE, table |-> [k \in {"title"} |-> "Hi"]]
      [] raw = "title = 'Hi'; content = 'cfg'" ->
           [ok |-> TRUE,
            table |-> [k \in {"title", "content"} |->
                          IF k = "title" THEN "Hi" ELSE "cfg"]]
      [] OTHER -> [ok |-> FALSE, table |-> EmptyTable]

\* The Markdown file <sourcedir>/<name>.md: missing, present but not
\* readable as a UTF-8 string, or its raw text.
NoFile == "<no file>"
Unreadable == "<unreadable>"
MdText(n) == IF n = "index" THEN "# Index" ELSE "# Post"
MdFiles(n) == {NoFile, Unreadable, MdText(n)}

\* pulldown_cmark::html::push_html over Parser::new_ext(raw, Options::all())
push_html(raw) ==
    CASE raw = "# Index" -> "<h1>Index</h1>"
      [] raw = "# Post" -> "<h1>Post</h1>"
      [] OTHER -> "<p></p>"

\* outfile = outdir joined with "{name}.html"
outfile(n) == IF n = "index" THEN "index.html" ELSE "blog/post.html"

\* outfile.parent(), relative to outdir ("" is outdir itself)
parent(p) == IF p = "blog/post.html" THEN "blog" ELSE ""

(***************************************************************************)
(* The output directory: whether it exists, and the entry at each path.    *)
(* An entry records the run that wrote it (0: before the first run).       *)
(***************************************************************************)
Data(kind, src, c) == [kind |-> kind, src |-> src, ctx |-> c]
NoData == Data("none", "", EmptyTable)
NoEntry == [by |-> 0, data |-> NoData]
Entry(r, d) == [by |-> r, data |-> d]

EmptyTree == [p \in Paths |-> NoEntry]
MissingDir == [exists |-> FALSE, tree |-> EmptyTree]
\* What an earlier build left behind: a page of the same name as a current
\* template and a page whose template no longer exists.
StaleDir ==
    [exists |-> TRUE,
     tree |-> [p \in Paths |->
                 IF p \in {"index.html", "old.html"}
                 THEN Entry(0, Data("old", p, EmptyTable)) ELSE NoEntry]]

\* The byte content of a tree, without the bookkeeping of who wrote it.
Content(o) == [exists |-> o.exists, tree |-> [p \in Paths |-> o.tree[p].data]]

VARIABLES
    \* ---- environment (inputs, fixed for the whole behaviour)
    config,     \* the configuration file (an element of ConfigFiles)
    fault,      \* the gate whose I/O fails, or "none"
    templates,  \* names registered by register_templates_directory
    md,         \* md[n]: the Markdown file of template n
    io,         \* io[n]: the per-template step that fails, or "ok"
    staticdir,  \* whether it exists, and its file names in listing order
    \* ---- file system state
    outdir,
    \* ---- program state
    pc,         \* position of main()
    ctx,        \* the shared Context
    todo,       \* registry keys the for loop has not yet yielded
    name,       \* the loop variable
    exit,       \* "running" | "ok" | "err"
    \* ---- bookkeeping
    run,        \* number of the current invocation
    start,      \* outdir when the current invocation began
    last,       \* outdir when the previous invocation ended
    attempts,   \* attempts[n]: iterations of the loop spent on n in this run
    copies      \* calls of fs_extra::dir::copy in this run

env == <<config, fault, templates, md, io, staticdir>>
vars == <<config, fault, templates, md, io, staticdir, outdir, pc, ctx, todo,
          name, exit, run, start, last, attempts, copies>>

Faults == {"none", "sourcedir", "remove_outdir", "create_outdir", "templates"}
\* create_dir_all on the output directory itself cannot fail once it exists,
\* so only a template in a subdirectory can meet a mkdir failure.
IoOutcomes(n) ==
    {"ok", "render_err", "create_err", "write_err"}
      \cup (IF parent(outfile(n)) = "" THEN {} ELSE {"mkdir_err"})
StaticListings == {<<>>, <<"logo.png">>, <<"index.html", "logo.png">>,
                   <<"logo.png", "index.html">>}
StaticDirs == {[exists |-> FALSE, files |-> <<>>]}
                \cup {[exists |-> TRUE, files |-> s] : s \in StaticListings}

Init ==
    /\ config \in ConfigFiles
    /\ fault \in Faults
    /\ templates \in SUBSET Names
    /\ md \in [Names -> {NoFile, Unreadable, "# Index", "# Post"}]
    /\ \A n \in Names : md[n] \in (IF n \in templates THEN MdFiles(n) ELSE {NoFile})
    /\ io \in [Names -> {"ok", "render_err", "create_err", "write_err", "mkdir_err"}]
    /\ \A n \in Names : io[n] \in (IF n \in templates THEN IoOutcomes(n) ELSE {"ok"})
    /\ staticdir \in StaticDirs
    /\ outdir \in {MissingDir, StaleDir}
    /\ pc = "LoadConfig"
    /\ ctx = EmptyTable
    /\ todo = {}
    /\ name = ""
    /\ exit = "running"
    /\ run = 1
    /\ start = outdir
    /\ last = outdir
    /\ attempts = [n \in Names |-> 0]
    /\ copies = 0

Terminal == {"Done", "Failed"}

\* bail!("A fatal error has occurred."): main returns Err, the process exits
\* with a non-zero status.
Bail ==
    /\ pc' = "Failed"
    /\ exit' = "err"

(***************************************************************************)
(* LoadConfig: read_to_string(config), then toml::from_str.                *)
(***************************************************************************)
\* Variant: a configuration that does not parse counts as an empty table.
load_config_or_default(file) ==
    IF file = "unreadable"
    THEN [ok |-> FALSE, table |-> EmptyTable]
    ELSE [ok |-> TRUE, table |-> from_str(file).table]

load_config(file) ==
    IF file = "unreadable"
    THEN [ok |-> FALSE, table |-> EmptyTable]
    ELSE from_str(file)

LoadConfig ==
    /\ pc = "LoadConfig"
    /\ LET res == load_config(config) IN
         IF res.ok
         THEN /\ ctx' = res.table
              /\ pc' = "ValidateSourceDir"
              /\ exit' = exit
         ELSE /\ Bail
              /\ ctx' = ctx
    /\ UNCHANGED <<env, outdir, todo, name, run, start, last, attempts, copies>>

(***************************************************************************)
(* ValidateSourceDir: read_dir(sourcedir) must succeed.                    *)
(***************************************************************************)
ValidateSourceDir ==
    /\ pc = "ValidateSourceDir"
    /\ IF fault = "sourcedir"
       THEN Bail
       ELSE /\ pc' = "ResetOutputDir"
            /\ exit' = exit
    /\ UNCHANGED <<env, outdir, ctx, todo, name, run, start, last, attempts,
                   copies>>

(***************************************************************************)
(* ResetOutputDir: remove_dir_all(outdir), then create_dir_all(outdir).    *)
(***************************************************************************)
\* Variant: the wipe is skipped, the directory is used as it is.
remove_dir_all_skipped(o) ==
    IF o.exists /\ fault # "remove_outdir"
    THEN [ok |-> TRUE, dir |-> o]
    ELSE [ok |-> FALSE, dir |-> o]

\* std::fs::remove_dir_all: an error when the directory does not exist or
\* cannot be removed (it is then left as it was).
remove_dir_all(o) ==
    IF o.exists /\ fault # "remove_outdir"
    THEN [ok |-> TRUE, dir |-> MissingDir]
    ELSE [ok |-> FALSE, dir |-> o]

\* std::fs::create_dir_all on the output directory itself.
create_outdir(o) ==
    IF fault = "create_outdir"
    THEN [ok |-> FALSE, dir |-> o]
    ELSE [ok |-> TRUE, dir |-> [o EXCEPT !.exists = TRUE]]

ResetOutputDir ==
    /\ pc = "ResetOutputDir"
    /\ LET removed == remove_dir_all(outdir)
           created == create_outdir(removed.dir)
       IN  IF ~removed.ok
           THEN /\ Bail
                /\ outdir' = removed.dir
           ELSE IF ~created.ok
           THEN /\ Bail
                /\ outdir' = created.dir
           ELSE /\ outdir' = created.dir
                /\ pc' = "LoadTemplates"
                /\ exit' = exit
    /\ UNCHANGED <<env, ctx, todo, name, run, start, last, attempts, copies>>

(***************************************************************************)
(* LoadTemplates: register_templates_directory(".hbs", sourcedir).         *)
(***************************************************************************)
\* Variant: the parse error is logged and the run goes on without bail!.
LoadTemplatesNoBail ==
    /\ pc = "LoadTemplates"
    /\ todo' = IF fault = "templates" THEN {} ELSE templates
    /\ pc' = "RenderLoop"
    /\ UNCHANGED <<env, outdir, ctx, name, exit, run, start, last, attempts,
                   copies>>

LoadTemplates ==
    /\ pc = "LoadTemplates"
    /\ IF fault = "templates"
       THEN /\ Bail
            /\ todo' = todo
       ELSE /\ todo' = templates
            /\ pc' = "RenderLoop"
            /\ exit' = exit
    /\ UNCHANGED <<env, outdir, ctx, name, run, start, last, attempts, copies>>

(***************************************************************************)
(* RenderLoop, first part of an iteration: the for loop yields the next    *)
(* key of the registry (a HashMap, so in any order) and the Markdown file  *)
(* of that template, if any, is put into the Context.                      *)
(***************************************************************************)
\* Variant: without the else branch that removes the key.
resolve_content_no_remove(c, file) ==
    IF file # NoFile /\ file # Unreadable
    THEN insert(c, "content", push_html(file))
    ELSE c

resolve_content(c, file) ==
    IF file # NoFile                       \* content_file.exists()
    THEN IF file # Unreadable              \* read_to_string
         THEN insert(c, "content", push_html(file))
         ELSE c                            \* logged only
    ELSE remove(c, "content")

ResolveContent ==
    /\ pc = "RenderLoop"
    /\ \E n \in todo :
         /\ name' = n
         /\ todo' = todo \ {n}
         /\ ctx' = resolve_content(ctx, md[n])
         /\ attempts' = [attempts EXCEPT ![n] = @ + 1]
    /\ pc' = "CreateParent"
    /\ UNCHANGED <<env, outdir, exit, run, start, last, copies>>

(***************************************************************************)
(* RenderLoop, second part: create_dir_all(outfile.parent()).  On failure  *)
(* the iteration is abandoned (continue).                                  *)
(***************************************************************************)
create_dir_all(o, p, r) ==
    IF p = "" \/ o.tree[p].data.kind # "none"
    THEN o
    ELSE [o EXCEPT !.tree[p] = Entry(r, Data("dir", p, EmptyTable))]

\* Variant: a failed create_dir_all leaves the loop (break for continue).
CreateParentBreak ==
    /\ pc = "CreateParent"
    /\ IF io[name] = "mkdir_err"
       THEN /\ pc' = "CopyStatic"
            /\ outdir' = outdir
       ELSE /\ pc' = "Render"
            /\ outdir' = create_dir_all(outdir, parent(outfile(name)), run)
    /\ UNCHANGED <<env, ctx, todo, name, exit, run, start, last, attempts,
                   copies>>

CreateParent ==
    /\ pc = "CreateParent"
    /\ IF io[name] = "mkdir_err"
       THEN /\ pc' = "RenderLoop"
            /\ outdir' = outdir
       ELSE /\ pc' = "Render"
            /\ outdir' = create_dir_all(outdir, parent(outfile(name)), run)
    /\ UNCHANGED <<env, ctx, todo, name, exit, run, start, last, attempts,
                   copies>>

(***************************************************************************)
(* RenderLoop, third part: engine.render(name, &ctx), File::create(outfile)*)
(* and write!.  Every failure is logged and the loop goes on.              *)
(***************************************************************************)
\* engine.render with no_escape: the page is determined by the template and
\* by the Context it is expanded against.
render(n, c) == Data("page", n, c)

write_output(o, n, c, outcome, r) ==
    CASE outcome = "ok" ->
           [o EXCEPT !.tree[outfile(n)] = Entry(r, render(n, c))]
      [] outcome = "write_err" ->      \* File::create succeeded, write! failed
           [o EXCEPT !.tree[outfile(n)] =
                Entry(r, Data("truncated", n, EmptyTable))]
      [] OTHER -> o                    \* render or File::create failed

RenderWrite ==
    /\ pc = "Render"
    /\ outdir' = write_output(outdir, name, ctx, io[name], run)
    /\ pc' = "RenderLoop"
    /\ UNCHANGED <<env, ctx, todo, name, exit, run, start, last, attempts,
                   copies>>

\* The for loop ends when the registry's keys are exhausted.
LoopExit ==
    /\ pc = "RenderLoop"
    /\ todo = {}
    /\ pc' = "CopyStatic"
    /\ UNCHANGED <<env, outdir, ctx, todo, name, exit, run, start, last,
                   attempts, copies>>

(***************************************************************************)
(* CopyStatic: fs_extra::dir::copy(staticdir, outdir) with content_only,   *)
(* overwrite = false and skip_exist = false.  Files are copied in listing  *)
(* order; the first one whose destination exists makes the copy fail, the  *)
(* files copied before it stay.                                            *)
(***************************************************************************)
\* Variant: overwrite = true.
copy_file_overwrite(o, f, r) ==
    [ok |-> TRUE,
     dir |-> [o EXCEPT !.tree[f] = Entry(r, Data("static", f, EmptyTable))]]

\* fs_extra::file::copy with overwrite = false, skip_exist = false
copy_file(o, f, r) ==
    IF o.tree[f].data.kind # "none"
    THEN [ok |-> FALSE, dir |-> o]
    ELSE [ok |-> TRUE,
          dir |-> [o EXCEPT !.tree[f] = Entry(r, Data("static", f, EmptyTable))]]

RECURSIVE copy_files(_, _, _)
copy_files(o, files, r) ==
    IF files = <<>>
    THEN [ok |-> TRUE, dir |-> o]
    ELSE LET res == copy_file(o, Head(files), r) IN
         IF res.ok THEN copy_files(res.dir, Tail(files), r) ELSE res

dir_copy(from, o, r) ==
    IF from.exists THEN copy_files(o, from.files, r)
    ELSE [ok |-> FALSE, dir |-> o]

CopyStatic ==
    /\ pc = "CopyStatic"
    /\ LET copy_res == dir_copy(staticdir, outdir, run) IN
         /\ outdir' = copy_res.dir
         /\ IF copy_res.ok
            THEN /\ pc' = "Done"
                 /\ exit' = "ok"
            ELSE Bail
    /\ copies' = copies + 1
    /\ UNCHANGED <<env, ctx, todo, name, run, start, last, attempts>>

(***************************************************************************)
(* The tool is invoked again on the same inputs, with the output directory *)
(* as the previous invocation left it.                                     *)
(***************************************************************************)
Rerun ==
    /\ pc \in Terminal
    /\ run < MaxRuns
    /\ run' = run + 1
    /\ start' = outdir
    /\ last' = outdir
    /\ pc' = "LoadConfig"
    /\ ctx' = EmptyTable
    /\ todo' = {}
    /\ name' = ""
    /\ exit' = "running"
    /\ attempts' = [n \in Names |-> 0]
    /\ copies' = 0
    /\ UNCHANGED <<env, outdir>>

\* One step of main().
Step ==
    \/ LoadConfig
    \/ ValidateSourceDir
    \/ ResetOutputDir
    \/ LoadTemplates
    \/ ResolveContent
    \/ CreateParent
    \/ RenderWrite
    \/ LoopExit
    \/ CopyStatic

Next == Step \/ Rerun

Spec == Init /\ [][Next]_vars

\* main() is sequential code with no blocking wait: a started run keeps
\* taking steps until it returns.  Nothing obliges anyone to run it again.
LiveSpec == Init /\ [][Next]_vars /\ WF_vars(Step)

(***************************************************************************)
(* Vocabulary of the properties.                                           *)
(***************************************************************************)
LoopPcs == {"RenderLoop", "CreateParent", "Render"}
Present(o, p) == o.tree[p].data.kind # "none"
HasContent(c) == "content" \in DOMAIN c
\* The Markdown file of n exists (whether or not it can be read).
MdExists(n) == md[n] # NoFile
\* The configuration file cannot be read or does not parse.
ConfigBad == config = "unreadable" \/ ~from_str(config).ok
\* Templates the loop has already yielded in this run.
Attempted == {n \in Names : attempts[n] > 0}
Range(s) == {s[i] : i \in 1..Len(s)}

\* C1: a template without a Markdown file is rendered with no "content" key
\* in the Context, whatever earlier iterations inserted.
C1_NoMarkdownNoContent ==
    (pc = "Render" /\ ~MdExists(name)) => ~HasContent(ctx)

\* An earlier iteration inserted its Markdown, the configuration defined
\* "content" too, and the current template has no Markdown file.
C1_Witness ==
    /\ pc = "Render"
    /\ ~MdExists(name)
    /\ ~HasContent(ctx)
    /\ \E m \in Attempted \ {name} : md[m] = MdText(m)

\* C2: at every render the "content" key reflects exactly the current
\* template's Markdown file: it is the HTML of that file when the file
\* exists, absent when it does not, and never anything else (such as the HTML
\* of another template's file).  Read in the claim's favour, a file that
\* exists but cannot be read may leave the key absent.
C2_ContentIsCurrentMarkdown ==
    pc = "Render" =>
        /\ ~MdExists(name) => ~HasContent(ctx)
        /\ md[name] = MdText(name) => HasContent(ctx)
        /\ HasContent(ctx) =>
              (md[name] = MdText(name) /\ ctx["content"] = push_html(md[name]))

\* C3: after a content-read, render, mkdir or write failure on a template the
\* loop still reaches every template and the run ends without an output file
\* <outdir>/<name>.html for the affected template.  Read in the claim's
\* favour, a static asset copied to that path afterwards does not count.
ProducedBy(n) == outdir.tree[outfile(n)].data.kind \in {"page", "truncated"}
C3_FailedTemplateLeavesNoFile ==
    (pc \in Terminal /\ copies = 1) =>
        \A n \in templates :
            /\ attempts[n] = 1
            /\ (md[n] = Unreadable \/ io[n] # "ok") => ~ProducedBy(n)

\* C4: nothing is written before the output directory has been wiped and
\* recreated, and from then on every entry of it was written by this run.
C4_NoStaleOutput ==
    /\ pc \in {"LoadConfig", "ValidateSourceDir", "ResetOutputDir"}
          => outdir = start
    /\ pc \in {"LoadTemplates", "CopyStatic", "Done"} \cup LoopPcs
          => /\ outdir.exists
             /\ \A p \in Paths : Present(outdir, p) => outdir.tree[p].by = run
    /\ pc = "Failed"
          => \/ outdir = start
             \/ \A p \in Paths : Present(outdir, p) => outdir.tree[p].by = run

\* A finished run that started on a directory holding an old page of a
\* current template and an orphaned page.
C4_Witness ==
    /\ pc = "Done"
    /\ Present(start, "index.html")
    /\ Present(start, "old.html")
    /\ Present(outdir, "index.html")
    /\ outdir.tree["index.html"].by = run
    /\ ~Present(outdir, "old.html")

\* C5: with an unreadable or unparseable configuration file the run ends with
\* a non-zero exit and the output directory is exactly as it was.
C5_BadConfigTouchesNothing ==
    (ConfigBad /\ pc # "LoadConfig") =>
        /\ pc = "Failed"
        /\ exit = "err"
        /\ outdir = start

C5_Witness ==
    /\ config = "title = ["
    /\ pc = "Failed"
    /\ exit = "err"
    /\ outdir = StaleDir

\* C6: the stages run in the order LoadConfig, ValidateSourceDir,
\* ResetOutputDir, LoadTemplates, RenderLoop, CopyStatic, Done; a failing
\* gate ends the run with a non-zero exit and nothing later is started.
Stage(p) == IF p \in LoopPcs THEN "RenderLoop" ELSE p
StageOrder ==
    {<<"LoadConfig", "ValidateSourceDir">>,
     <<"ValidateSourceDir", "ResetOutputDir">>,
     <<"ResetOutputDir", "LoadTemplates">>,
     <<"LoadTemplates", "RenderLoop">>,
     <<"RenderLoop", "RenderLoop">>,
     <<"RenderLoop", "CopyStatic">>,
     <<"CopyStatic", "Done">>}
Gates == {"LoadConfig", "ValidateSourceDir", "ResetOutputDir",
          "LoadTemplates", "CopyStatic"}
\* The I/O of the gate the run is at fails.
GateFails ==
    CASE pc = "LoadConfig" -> ConfigBad
      [] pc = "ValidateSourceDir" -> fault = "sourcedir"
      [] pc = "ResetOutputDir" ->
           ~outdir.exists \/ fault \in {"remove_outdir", "create_outdir"}
      [] pc = "LoadTemplates" -> fault = "templates"
      [] pc = "CopyStatic" ->
           \/ ~staticdir.exists
           \/ \E f \in Range(staticdir.files) : Present(outdir, f)
      [] OTHER -> FALSE
C6_Step ==
    run' = run =>
        /\ pc' # pc =>
             \/ <<Stage(pc), Stage(pc')>> \in StageOrder
             \/ pc \in Gates /\ pc' = "Failed"
        /\ GateFails => (pc' = "Failed" /\ exit' = "err")
        /\ pc' = "Failed" => (GateFails /\ exit' = "err")
        /\ (pc' = "Failed" /\ pc # "CopyStatic")
              => (attempts' = [n \in Names |-> 0] /\ copies' = 0)
C6_StagesInOrder == [][C6_Step]_vars

\* The template set failed to parse although templates and static files
\* were there to be processed: nothing was rendered, nothing copied.
C6_Witness ==
    /\ pc = "Failed"
    /\ exit = "err"
    /\ fault = "templates"
    /\ templates = Names
    /\ staticdir.files # <<>>
    /\ outdir = [exists |-> TRUE, tree |-> EmptyTree]

\* C7: a second run on unchanged inputs ends with the same output tree as
\* the first.
C7_Idempotent ==
    (run > 1 /\ pc \in Terminal) => Content(outdir) = Content(last)

\* C8: a static file whose name is already taken in the output directory
\* makes the copy fail; the existing file keeps its content and the run
\* exits non-zero.
C8_Step ==
    (pc = "CopyStatic" /\ staticdir.exists) =>
        \A f \in Range(staticdir.files) :
            Present(outdir, f) =>
                /\ outdir'.tree[f] = outdir.tree[f]
                /\ pc' = "Failed"
                /\ exit' = "err"
C8_CollisionFailsCopy == [][C8_Step]_vars

\* The static directory holds index.html, the page of template index was
\* rendered, and the copy has failed leaving the page in place.
C8_Witness ==
    /\ pc = "Failed"
    /\ copies = 1
    /\ "index.html" \in Range(staticdir.files)
    /\ outdir.tree["index.html"].data.kind = "page"
    /\ Present(outdir, "logo.png")

\* C9: once the templates are loaded every template is attempted exactly
\* once whatever fails, the static copy is made exactly once and only after
\* the loop has finished, and the run terminates.
C9_Safe ==
    /\ \A n \in Names : attempts[n] <= 1
    /\ Attempted \subseteq templates
    /\ copies <= 1
    /\ pc = "CopyStatic" => (Attempted = templates /\ copies = 0)
    /\ copies = 1 => (Attempted = templates /\ pc \in Terminal)
    /\ pc = "Done" => copies = 1
C9_LoopCompletes ==
    /\ []C9_Safe
    /\ \A r \in 1..MaxRuns :
         (run = r /\ pc = "RenderLoop")
            ~> (run = r /\ pc \in Terminal /\ copies = 1
                        /\ Attempted = templates)

\* Both templates failed, one at rendering and one at creating its
\* directory, and the run still reached the end.
C9_Witness ==
    /\ pc = "Done"
    /\ copies = 1
    /\ templates = Names
    /\ io["index"] = "render_err"
    /\ io["blog/post"] = "mkdir_err"
    /\ \A n \in Names : attempts[n] = 1

\* The table the configuration file parses to.
ConfigTable == from_str(config).table
C10_Frame ==
    pc \in LoopPcs \cup {"CopyStatic", "Done"} =>
        /\ (DOMAIN ctx) \ {"content"} = (DOMAIN ConfigTable) \ {"content"}
        /\ \A k \in (DOMAIN ctx) \ {"content"} : ctx[k] = ConfigTable[k]
KeepsConfigContent ==
    /\ HasContent(ConfigTable)
    /\ HasContent(ctx)
    /\ ctx["content"] = ConfigTable["content"]
\* C10: the loop changes the Context only at "content" (every other key keeps
\* the value loaded from the configuration file), and a "content" entry of
\* the configuration file is removed or overwritten by the first iteration
\* and never comes back.
C10_ConfigContentGoneAfterFirst ==
    /\ C10_Frame
    /\ (pc \in LoopPcs /\ Attempted # {}) => ~KeepsConfigContent

====
